---- MODULE Spec2Model ----
(***************************************************************************)
(* Model of src/main.py: a single-player number game whose expected        *)
(* answers are governed by an ordered collection of rules.                 *)
(*                                                                         *)
(* Strings: the source prints a few non-ASCII glyphs (arrows, a dash).     *)
(* They are written here as "<->", "->" and "--"; every other character    *)
(* of a message or description is kept.                                    *)
(***************************************************************************)
EXTENDS Integers, Sequences, FiniteSets, TLC

VARIABLES active_rules, range_start, range_end, iteration, pc,
          entry, conflict, choice, attempt,
          rule_map, banned_numbers, num, expected, exc,
          value_error, removed, player_input

vars == <<active_rules, range_start, range_end, iteration, pc,
          entry, conflict, choice, attempt,
          rule_map, banned_numbers, num, expected, exc,
          value_error, removed, player_input>>

(* ------------------------------ bounds --------------------------------- *)

\* longest active collection the model explores
MaxRules == 2
\* the iteration counter stops growing here
MaxIter == 3

\* numbers typed as rule parameters
ParamNums == {9, 10}
\* divisors typed for the divisible pattern
Divisors == {0, 3}
\* texts typed as rule parameters
Texts == {"Fizz", "5"}
\* numbers typed at the range prompt
RangeNums == {1, 9}
\* a guess that is never an expected answer
WrongGuess == "?"

(* --------------------------- Python values ----------------------------- *)

\* Python's None and an optional value holding x
None == <<>>
Some(x) == <<x>>

\* what can be typed at an integer prompt: text that int() refuses (None)
\* or one of the integers of S
IntInputs(S) == {None} \cup {Some(k) : k \in S}

Digit == <<"0", "1", "2", "3", "4", "5", "6", "7", "8", "9">>

\* str(n) for an int
RECURSIVE ToStr(_)
ToStr(n) ==
    IF n < 0 THEN "-" \o ToStr(-n)
    ELSE IF n < 10 THEN Digit[n + 1]
    ELSE ToStr(n \div 10) \o Digit[(n % 10) + 1]

\* n % d for ints, d # 0: the result has the sign of d
PyMod(n, d) == IF d > 0 THEN n % d ELSE -((-n) % (-d))

\* " ".join(tags)
RECURSIVE Join(_)
Join(tags) ==
    IF Len(tags) = 0 THEN ""
    ELSE IF Len(tags) = 1 THEN tags[1]
    ELSE tags[1] \o " " \o Join(Tail(tags))

(* ----------------------------- RuleValue ------------------------------- *)

RuleValue(number) == [number |-> number, tags |-> <<>>, banned |-> FALSE]

tag(rv, text) == [rv EXCEPT !.tags = Append(@, text)]

ban(rv) == [rv EXCEPT !.banned = TRUE]

\* render() either returns a string or raises; the two outcomes are told
\* apart by the field raised
render(rv) ==
    IF rv.banned
    THEN [raised |-> TRUE,
          value |-> "Game Over -- " \o ToStr(rv.number) \o " is banned"]
    ELSE [raised |-> FALSE,
          value |-> IF Len(rv.tags) > 0 THEN Join(rv.tags)
                    ELSE ToStr(rv.number)]

(* ------------------------------- Rules --------------------------------- *)

swap(a, b) ==
    [kind |-> "swap", params |-> [a |-> a, b |-> b],
     description |-> "Swap " \o ToStr(a) \o " <-> " \o ToStr(b)]

replace(n, text) ==
    [kind |-> "replace", params |-> [num |-> n, text |-> text],
     description |-> "Replace " \o ToStr(n) \o " -> '" \o text \o "'"]

banRule(n) ==
    [kind |-> "ban", params |-> [num |-> n],
     description |-> "Ban " \o ToStr(n)]

\* divisible as it would be without the test of lines 108-109
divisible_raises_Never(divisor) == FALSE

\* divisible(divisor, text) raises ValueError instead of returning: lines 108-109
divisible_raises(divisor) == divisor = 0

\* divisible(divisor, text) when it returns
divisible(divisor, text) ==
    [kind |-> "divisible", params |-> [divisor |-> divisor, text |-> text],
     description |-> "Divisible by " \o ToStr(divisor) \o " -> '" \o text \o "'"]

odd(text) ==
    [kind |-> "odd", params |-> [text |-> text],
     description |-> "Odd -> '" \o text \o "'"]

even(text) ==
    [kind |-> "even", params |-> [text |-> text],
     description |-> "Even -> '" \o text \o "'"]

\* the closure fn of a RuleEntry, applied to a RuleValue
Fn(rule, rv) ==
    IF rule.kind = "swap" THEN
        IF rv.number = rule.params.a THEN [rv EXCEPT !.number = rule.params.b]
        ELSE IF rv.number = rule.params.b THEN [rv EXCEPT !.number = rule.params.a]
        ELSE rv
    ELSE IF rule.kind = "replace" THEN
        IF rv.number = rule.params.num THEN tag(rv, rule.params.text) ELSE rv
    ELSE IF rule.kind = "ban" THEN
        IF rv.number = rule.params.num THEN ban(rv) ELSE rv
    ELSE IF rule.kind = "divisible" THEN
        IF PyMod(rv.number, rule.params.divisor) = 0
        THEN tag(rv, rule.params.text) ELSE rv
    ELSE IF rule.kind = "odd" THEN
        IF PyMod(rv.number, 2) # 0 THEN tag(rv, rule.params.text) ELSE rv
    ELSE
        IF PyMod(rv.number, 2) = 0 THEN tag(rv, rule.params.text) ELSE rv

PREDEFINED ==
    <<swap(6, 9), replace(1, "ewww 1"), banRule(4), divisible(3, "Fizz"),
      odd("Odd")>>

\* number of entries of PATTERNS
NumPatterns == 6

(* -------------------------- ConflictChecker ---------------------------- *)

\* banned_numbers as it would be if the checker remembered the ban rule
\* removed last
banned_numbers_WithRemoved(active) ==
    {active[i].params.num : i \in {j \in 1..Len(active) : active[j].kind = "ban"}}
    \cup (IF removed # None /\ removed[1].kind = "ban"
          THEN {removed[1].params.num} ELSE {})

ConflictChecker_banned_numbers(active) ==
    {active[i].params.num : i \in {j \in 1..Len(active) : active[j].kind = "ban"}}

\* indices of the active rules equal to the proposed one in kind and params
DuplicatesOf(active, proposed) ==
    {i \in 1..Len(active) :
        /\ active[i].kind = proposed.kind
        /\ active[i].params = proposed.params}

Min(S) == CHOOSE m \in S : \A k \in S : m <= k

\* check as it would be without the duplicate test of lines 63-66
check_NoDuplicateTest(active, proposed) ==
    LET banned == ConflictChecker_banned_numbers(active)
    IN  IF proposed.kind = "replace" /\ proposed.params.num \in banned THEN
            Some(ToStr(proposed.params.num)
                 \o " is already banned -- a replace rule for it would never fire")
        ELSE IF proposed.kind = "swap" /\ proposed.params.a \in banned THEN
            Some(ToStr(proposed.params.a)
                 \o " is already banned -- it cannot participate in a swap")
        ELSE IF proposed.kind = "swap" /\ proposed.params.b \in banned THEN
            Some(ToStr(proposed.params.b)
                 \o " is already banned -- it cannot participate in a swap")
        ELSE None

\* check as it would be without the replace test of lines 68-72
check_NoReplaceTest(active, proposed) ==
    LET banned == ConflictChecker_banned_numbers(active)
        dups == DuplicatesOf(active, proposed)
    IN  IF dups # {} THEN
            Some("An identical rule already exists -> ["
                 \o active[Min(dups)].description \o "]")
        ELSE IF proposed.kind = "swap" /\ proposed.params.a \in banned THEN
            Some(ToStr(proposed.params.a)
                 \o " is already banned -- it cannot participate in a swap")
        ELSE IF proposed.kind = "swap" /\ proposed.params.b \in banned THEN
            Some(ToStr(proposed.params.b)
                 \o " is already banned -- it cannot participate in a swap")
        ELSE None

\* check as it would be if the loop of line 76 visited side 'a' only
check_SwapTestsSideA(active, proposed) ==
    LET banned == ConflictChecker_banned_numbers(active)
        dups == DuplicatesOf(active, proposed)
    IN  IF dups # {} THEN
            Some("An identical rule already exists -> ["
                 \o active[Min(dups)].description \o "]")
        ELSE IF proposed.kind = "replace" /\ proposed.params.num \in banned THEN
            Some(ToStr(proposed.params.num)
                 \o " is already banned -- a replace rule for it would never fire")
        ELSE IF proposed.kind = "swap" /\ proposed.params.a \in banned THEN
            Some(ToStr(proposed.params.a)
                 \o " is already banned -- it cannot participate in a swap")
        ELSE None

\* check as it would be with a fourth, symmetric test: a ban of a number
\* that an active replace or swap names is refused
check_BanOfTargetedRefused(active, proposed) ==
    LET banned == ConflictChecker_banned_numbers(active)
        dups == DuplicatesOf(active, proposed)
        named == UNION {IF active[i].kind = "replace" THEN {active[i].params.num}
                        ELSE IF active[i].kind = "swap"
                        THEN {active[i].params.a, active[i].params.b}
                        ELSE {} : i \in 1..Len(active)}
    IN  IF dups # {} THEN
            Some("An identical rule already exists -> ["
                 \o active[Min(dups)].description \o "]")
        ELSE IF proposed.kind = "replace" /\ proposed.params.num \in banned THEN
            Some(ToStr(proposed.params.num)
                 \o " is already banned -- a replace rule for it would never fire")
        ELSE IF proposed.kind = "swap" /\ proposed.params.a \in banned THEN
            Some(ToStr(proposed.params.a)
                 \o " is already banned -- it cannot participate in a swap")
        ELSE IF proposed.kind = "swap" /\ proposed.params.b \in banned THEN
            Some(ToStr(proposed.params.b)
                 \o " is already banned -- it cannot participate in a swap")
        ELSE IF proposed.kind = "ban" /\ proposed.params.num \in named THEN
            Some(ToStr(proposed.params.num) \o " is already used by a rule")
        ELSE None

ConflictChecker_check(active, proposed) ==
    LET banned == ConflictChecker_banned_numbers(active)
        dups == DuplicatesOf(active, proposed)
    IN  IF dups # {} THEN
            Some("An identical rule already exists -> ["
                 \o active[Min(dups)].description \o "]")
        ELSE IF proposed.kind = "replace" /\ proposed.params.num \in banned THEN
            Some(ToStr(proposed.params.num)
                 \o " is already banned -- a replace rule for it would never fire")
        ELSE IF proposed.kind = "swap" /\ proposed.params.a \in banned THEN
            Some(ToStr(proposed.params.a)
                 \o " is already banned -- it cannot participate in a swap")
        ELSE IF proposed.kind = "swap" /\ proposed.params.b \in banned THEN
            Some(ToStr(proposed.params.b)
                 \o " is already banned -- it cannot participate in a swap")
        ELSE None

(* ---------------------------- run_iteration ---------------------------- *)

\* AssignedNumbers as it would be without line 284
AssignedNumbers_SwapOnlyA(rule, lo, hi) ==
    IF rule.kind = "swap" THEN {rule.params.a}
    ELSE IF rule.kind = "replace" THEN {rule.params.num}
    ELSE IF rule.kind = "divisible" THEN
        {n \in lo..hi : PyMod(n, rule.params.divisor) = 0}
    ELSE IF rule.kind = "odd" THEN {n \in lo..hi : PyMod(n, 2) # 0}
    ELSE IF rule.kind = "even" THEN {n \in lo..hi : PyMod(n, 2) = 0}
    ELSE {}

\* the numbers a non-ban rule is assigned to in rule_map (lines 281-298)
AssignedNumbers(rule, lo, hi) ==
    IF rule.kind = "swap" THEN {rule.params.a, rule.params.b}
    ELSE IF rule.kind = "replace" THEN {rule.params.num}
    ELSE IF rule.kind = "divisible" THEN
        {n \in lo..hi : PyMod(n, rule.params.divisor) = 0}
    ELSE IF rule.kind = "odd" THEN {n \in lo..hi : PyMod(n, 2) # 0}
    ELSE IF rule.kind = "even" THEN {n \in lo..hi : PyMod(n, 2) = 0}
    ELSE {}

\* rule_map[n] = rule for every n of S
Assign(map, S, rule) ==
    [n \in (DOMAIN map) \cup S |-> IF n \in S THEN rule ELSE map[n]]

\* the loop body as it would be if an assignment never replaced an earlier one
RuleMapStep_FirstWins(map, rule, lo, hi) ==
    IF rule.kind = "ban" THEN map
    ELSE Assign(map, AssignedNumbers(rule, lo, hi) \ DOMAIN map, rule)

\* the loop body as it would be if a ban were entered in rule_map like a replace
RuleMapStep_BanGoverns(map, rule, lo, hi) ==
    IF rule.kind = "ban" THEN Assign(map, {rule.params.num}, rule)
    ELSE Assign(map, AssignedNumbers(rule, lo, hi), rule)

\* one pass of the loop body of lines 276-298, for one rule
RuleMapStep(map, rule, lo, hi) ==
    IF rule.kind = "ban" THEN map
    ELSE Assign(map, AssignedNumbers(rule, lo, hi), rule)

\* the loop of lines 276-298 over rules[i..], started with the map so far
RECURSIVE BuildRuleMap(_, _, _, _, _)
BuildRuleMap(rules, i, map, lo, hi) ==
    IF i > Len(rules) THEN map
    ELSE BuildRuleMap(rules, i + 1, RuleMapStep(map, rules[i], lo, hi), lo, hi)

\* the banned_numbers set built by the same loop (line 278)
BuildBannedNumbers(rules) ==
    {rules[i].params.num : i \in {j \in 1..Len(rules) : rules[j].kind = "ban"}}

\* lines 312-314 as they would be without the while loop
NextNonBanned_NoSkip(next_num, banned) == next_num

\* the while loop of lines 313-314
RECURSIVE NextNonBanned(_, _)
NextNonBanned(next_num, banned) ==
    IF next_num \in banned THEN NextNonBanned(next_num + 1, banned)
    ELSE next_num

\* lines 310-315 as they would be if the following number were rendered
\* through its governing rule
ComputeExpected_Cascade(n, map, banned) ==
    LET rv0 == RuleValue(n)
        rv == IF n \in DOMAIN map THEN Fn(map[n], rv0) ELSE rv0
        r == render(rv)
        m == NextNonBanned(n + 1, banned)
    IN  IF r.raised THEN r
        ELSE IF n \in banned
        THEN render(IF m \in DOMAIN map THEN Fn(map[m], RuleValue(m))
                    ELSE RuleValue(m))
        ELSE r

\* lines 302-315: the expected answer for n, or the exception render() raises
ComputeExpected(n, map, banned) ==
    LET rv0 == RuleValue(n)
        rv == IF n \in DOMAIN map THEN Fn(map[n], rv0) ELSE rv0
        r == render(rv)
    IN  IF r.raised THEN r
        ELSE IF n \in banned
        THEN [raised |-> FALSE, value |-> ToStr(NextNonBanned(n + 1, banned))]
        ELSE r

(* ------------------------------ the game ------------------------------- *)

\* an empty rule_map
EmptyMap == <<>>

Init ==
    /\ active_rules = <<>>
    /\ range_start = 1
    /\ range_end = 10
    /\ iteration = 1
    /\ pc = "main"
    /\ entry = None
    /\ conflict = None
    /\ choice = 0
    /\ attempt = 0
    /\ rule_map = EmptyMap
    /\ banned_numbers = {}
    /\ num = 0
    /\ expected = ""
    /\ exc = None
    /\ value_error = None
    /\ removed = None
    /\ player_input = ""

\* the locals of run_iteration are not live outside a round
RoundLocalsCleared ==
    /\ rule_map' = EmptyMap
    /\ banned_numbers' = {}
    /\ num' = 0
    /\ expected' = ""
    /\ exc' = None

\* entry, conflict, choice, attempt, value_error, removed and player_input
\* hold what the last command left in them; a command that does not use
\* them starts with them cleared.  No try_add call in this step:
NoTryAdd == entry' = None /\ conflict' = None

\* this step is not part of add_custom_rule
NoCustom == choice' = 0 /\ attempt' = 0 /\ value_error' = None

\* this step is not a removal by remove_rule
NoRemoved == removed' = None

\* this step is not an answer of the player
NoMove == player_input' = ""

\* try_add as it would be with insert(0, entry) for append(entry)
try_add_Prepend(e) ==
    LET c == ConflictChecker_check(active_rules, e)
    IN  /\ c # None \/ Len(active_rules) < MaxRules
        /\ entry' = Some(e)
        /\ conflict' = c
        /\ active_rules' = IF c # None THEN active_rules
                           ELSE <<e>> \o active_rules

\* try_add(e): lines 195-203.  Accepting is explored up to MaxRules rules.
try_add(e) ==
    LET c == ConflictChecker_check(active_rules, e)
    IN  /\ c # None \/ Len(active_rules) < MaxRules
        /\ entry' = Some(e)
        /\ conflict' = c
        /\ active_rules' = IF c # None THEN active_rules
                           ELSE Append(active_rules, e)

\* add_predefined_rule as it would be if the menu were shown in iteration 1
add_predefined_rule_InFirstIteration(inp) ==
    /\ pc = "main"
    /\ IF inp = None \/ inp[1] \notin 1..Len(PREDEFINED)
       THEN NoTryAdd /\ UNCHANGED active_rules
       ELSE try_add(PREDEFINED[inp[1]])
    /\ NoCustom /\ NoRemoved /\ NoMove
    /\ UNCHANGED <<range_start, range_end, iteration, pc,
                   rule_map, banned_numbers, num, expected, exc>>

\* menu choice 1, add_predefined_rule: lines 207-218
add_predefined_rule(inp) ==
    /\ pc = "main" /\ iteration > 1
    /\ IF inp = None \/ inp[1] \notin 1..Len(PREDEFINED)
       THEN NoTryAdd /\ UNCHANGED active_rules
       ELSE try_add(PREDEFINED[inp[1]])
    /\ NoCustom /\ NoRemoved /\ NoMove
    /\ UNCHANGED <<range_start, range_end, iteration, pc,
                   rule_map, banned_numbers, num, expected, exc>>

\* menu choice 2, add_custom_rule up to its retry loop: lines 220-228
add_custom_rule(inp) ==
    /\ pc = "main" /\ iteration > 1
    /\ NoTryAdd /\ NoRemoved /\ NoMove
    /\ value_error' = None
    /\ IF inp = None \/ inp[1] \notin 1..NumPatterns
       THEN pc' = pc /\ choice' = 0 /\ attempt' = 0
       ELSE pc' = "custom" /\ choice' = inp[1] /\ attempt' = 0
    /\ UNCHANGED <<active_rules, range_start, range_end, iteration,
                   rule_map, banned_numbers, num, expected, exc>>

\* a call that returned v, and a call that raised ValueError(msg)
Returned(v) == [raised |-> FALSE, value |-> v]
Raised(msg) == [raised |-> TRUE, value |-> msg]

\* the ValueError of int() for text that is not an integer
IntError == "invalid literal for int() with base 10"

\* the ValueError of line 109
DivisorError == "Divisor cannot be zero."

\* PATTERNS[c][1](): the outcomes of the builder of pattern c over the
\* inputs that can be typed; int() is applied to each integer input in
\* turn, then the constructor is called
PATTERNS(c) ==
    IF c = 1 THEN
        {IF a = None \/ b = None THEN Raised(IntError)
         ELSE Returned(swap(a[1], b[1])) :
            a \in IntInputs(ParamNums), b \in IntInputs(ParamNums)}
    ELSE IF c = 2 THEN
        {IF n = None THEN Raised(IntError) ELSE Returned(replace(n[1], t)) :
            n \in IntInputs(ParamNums), t \in Texts}
    ELSE IF c = 3 THEN
        {IF n = None THEN Raised(IntError) ELSE Returned(banRule(n[1])) :
            n \in IntInputs(ParamNums)}
    ELSE IF c = 4 THEN
        {IF d = None THEN Raised(IntError)
         ELSE IF divisible_raises(d[1]) THEN Raised(DivisorError)
         ELSE Returned(divisible(d[1], t)) :
            d \in IntInputs(Divisors), t \in Texts}
    ELSE IF c = 5 THEN {Returned(odd(t)) : t \in Texts}
    ELSE {Returned(even(t)) : t \in Texts}

\* retry budget of add_custom_rule (line 230)
MAX_RETRIES == 3

\* the retry loop as it would be if a ValueError used up an attempt and
\* prompted again
custom_attempt_RetriesOnValueError(built) ==
    /\ pc = "custom"
    /\ IF built.raised
       THEN /\ value_error' = Some(built.value)
            /\ NoTryAdd
            /\ UNCHANGED active_rules
            /\ IF attempt < MAX_RETRIES - 1
               THEN pc' = "custom" /\ attempt' = attempt + 1
               ELSE pc' = "main" /\ attempt' = attempt
       ELSE /\ value_error' = None
            /\ try_add(built.value)
            /\ IF conflict' # None /\ attempt < MAX_RETRIES - 1
               THEN pc' = "custom" /\ attempt' = attempt + 1
               ELSE pc' = "main" /\ attempt' = attempt
    /\ NoRemoved
    /\ UNCHANGED <<range_start, range_end, iteration, choice,
                   rule_map, banned_numbers, num, expected, exc, player_input>>

\* the retry loop as it would be without the return of line 240
custom_attempt_NoReturnOnAccept(built) ==
    /\ pc = "custom"
    /\ IF built.raised
       THEN /\ value_error' = Some(built.value)
            /\ NoTryAdd
            /\ UNCHANGED active_rules
            /\ pc' = "main" /\ attempt' = attempt
       ELSE /\ value_error' = None
            /\ try_add(built.value)
            /\ IF attempt < MAX_RETRIES - 1
               THEN pc' = "custom" /\ attempt' = attempt + 1
               ELSE pc' = "main" /\ attempt' = attempt
    /\ NoRemoved
    /\ UNCHANGED <<range_start, range_end, iteration, choice,
                   rule_map, banned_numbers, num, expected, exc, player_input>>

\* one pass of the retry loop of add_custom_rule: lines 231-245
custom_attempt(built) ==
    /\ pc = "custom"
    /\ IF built.raised
       THEN /\ value_error' = Some(built.value)
            /\ NoTryAdd
            /\ UNCHANGED active_rules
            /\ pc' = "main" /\ attempt' = attempt
       ELSE /\ value_error' = None
            /\ try_add(built.value)
            /\ IF conflict' # None /\ attempt < MAX_RETRIES - 1
               THEN pc' = "custom" /\ attempt' = attempt + 1
               ELSE pc' = "main" /\ attempt' = attempt
    /\ NoRemoved
    /\ UNCHANGED <<range_start, range_end, iteration, choice,
                   rule_map, banned_numbers, num, expected, exc, player_input>>

\* list.pop() without its index: the last element goes
Pop_Last(list, i) == [k \in 1..(Len(list) - 1) |-> list[k]]

\* list.pop(i) with a 0-based index i
Pop(list, i) ==
    [k \in 1..(Len(list) - 1) |-> IF k <= i THEN list[k] ELSE list[k + 1]]

\* menu choice 3, remove_rule: lines 247-258
remove_rule(inp) ==
    /\ pc = "main" /\ iteration > 1
    /\ NoTryAdd /\ NoCustom /\ NoMove
    /\ IF active_rules = <<>> THEN NoRemoved /\ UNCHANGED active_rules
       ELSE IF inp = None \/ ~(1 <= inp[1] /\ inp[1] <= Len(active_rules))
       THEN NoRemoved /\ UNCHANGED active_rules
       ELSE /\ removed' = Some(active_rules[(inp[1] - 1) + 1])
            /\ active_rules' = Pop(active_rules, inp[1] - 1)
    /\ UNCHANGED <<range_start, range_end, iteration, pc,
                   rule_map, banned_numbers, num, expected, exc>>

\* menu choice 4, change_range up to the first prompt: lines 260-261, 163-165
change_range ==
    /\ pc = "main" /\ iteration > 1
    /\ NoTryAdd /\ NoCustom /\ NoRemoved /\ NoMove
    /\ pc' = "prompt_range"
    /\ UNCHANGED <<active_rules, range_start, range_end, iteration,
                   rule_map, banned_numbers, num, expected, exc>>

\* prompt_range as it would be with start > end for the test of line 170
prompt_range_AllowsEqual(start, end) ==
    /\ pc = "prompt_range"
    /\ IF start = None \/ end = None THEN UNCHANGED <<range_start, range_end, pc>>
       ELSE IF start[1] > end[1] THEN UNCHANGED <<range_start, range_end, pc>>
       ELSE range_start' = start[1] /\ range_end' = end[1] /\ pc' = "main"
    /\ UNCHANGED <<active_rules, iteration, entry, conflict, choice, attempt,
                   rule_map, banned_numbers, num, expected, exc,
                   value_error, removed, player_input>>

\* one pass of the loop of prompt_range, and the assignment of line 261
\* when it returns: lines 165-173, 261-262
prompt_range(start, end) ==
    /\ pc = "prompt_range"
    /\ IF start = None \/ end = None THEN UNCHANGED <<range_start, range_end, pc>>
       ELSE IF start[1] >= end[1] THEN UNCHANGED <<range_start, range_end, pc>>
       ELSE range_start' = start[1] /\ range_end' = end[1] /\ pc' = "main"
    /\ UNCHANGED <<active_rules, iteration, entry, conflict, choice, attempt,
                   rule_map, banned_numbers, num, expected, exc,
                   value_error, removed, player_input>>

\* any other menu choice: lines 361-365
invalid_choice ==
    /\ pc = "main" /\ iteration > 1
    /\ NoTryAdd /\ NoCustom /\ NoRemoved /\ NoMove
    /\ UNCHANGED <<active_rules, range_start, range_end, iteration, pc,
                   rule_map, banned_numbers, num, expected, exc>>

\* the loop of lines 300-318 arrives at number n: the expected answer is
\* computed and the player is prompted, or render() raises and the round
\* and the process end (lines 327-329, 367-368)
ArriveAt(n, map, banned) ==
    LET r == ComputeExpected(n, map, banned)
    IN  /\ num' = n
        /\ IF r.raised
           THEN expected' = "" /\ exc' = Some(r.value) /\ pc' = "exit"
           ELSE expected' = r.value /\ exc' = None /\ pc' = "round"

\* run_iteration up to its first prompt: lines 266-318.  It is entered
\* directly in iteration 1 and by menu choice 5 afterwards (lines 344-367).
run_iteration ==
    /\ pc = "main"
    /\ iteration < MaxIter
    /\ NoTryAdd /\ NoCustom /\ NoRemoved /\ NoMove
    /\ rule_map' = BuildRuleMap(active_rules, 1, EmptyMap, range_start, range_end)
    /\ banned_numbers' = BuildBannedNumbers(active_rules)
    /\ ArriveAt(range_start, rule_map', banned_numbers')
    /\ UNCHANGED <<active_rules, range_start, range_end, iteration>>

\* the main loop as it would be with continue for the break of line 368
player_move_WrongGuessToMenu(typed) ==
    /\ pc = "round"
    /\ player_input' = typed
    /\ IF typed # expected
       THEN /\ pc' = "main"
            /\ iteration' = iteration
            /\ RoundLocalsCleared
       ELSE IF num = range_end
       THEN /\ pc' = "main"
            /\ iteration' = iteration + 1
            /\ RoundLocalsCleared
       ELSE /\ ArriveAt(num + 1, rule_map, banned_numbers)
            /\ UNCHANGED <<iteration, rule_map, banned_numbers>>
    /\ UNCHANGED <<active_rules, range_start, range_end, entry, conflict,
                   choice, attempt, value_error, removed>>

\* the round as it would be without the return of line 322
player_move_IgnoresMismatch(typed) ==
    /\ pc = "round"
    /\ player_input' = typed
    /\ IF num = range_end
       THEN /\ pc' = "main"
            /\ iteration' = iteration + 1
            /\ RoundLocalsCleared
       ELSE /\ ArriveAt(num + 1, rule_map, banned_numbers)
            /\ UNCHANGED <<iteration, rule_map, banned_numbers>>
    /\ UNCHANGED <<active_rules, range_start, range_end, entry, conflict,
                   choice, attempt, value_error, removed>>

\* the player answers the prompt for num: lines 318-325, 367-370
player_move(typed) ==
    /\ pc = "round"
    /\ player_input' = typed
    /\ IF typed # expected
       THEN /\ pc' = "exit"
            /\ UNCHANGED <<iteration, rule_map, banned_numbers, num, expected,
                           exc>>
       ELSE IF num = range_end
       THEN /\ pc' = "main"
            /\ iteration' = iteration + 1
            /\ RoundLocalsCleared
       ELSE /\ ArriveAt(num + 1, rule_map, banned_numbers)
            /\ UNCHANGED <<iteration, rule_map, banned_numbers>>
    /\ UNCHANGED <<active_rules, range_start, range_end, entry, conflict,
                   choice, attempt, value_error, removed>>

Next ==
    \/ \E inp \in IntInputs(0..(Len(PREDEFINED) + 1)) : add_predefined_rule(inp)
    \/ \E inp \in IntInputs(0..(NumPatterns + 1)) : add_custom_rule(inp)
    \/ \E built \in PATTERNS(choice) : custom_attempt(built)
    \/ \E inp \in IntInputs(0..(MaxRules + 1)) : remove_rule(inp)
    \/ change_range
    \/ \E start \in IntInputs(RangeNums), end \in IntInputs(RangeNums) :
            prompt_range(start, end)
    \/ invalid_choice
    \/ run_iteration
    \/ \E typed \in {expected, WrongGuess} : player_move(typed)

Spec == Init /\ [][Next]_vars

TypeOK ==
    /\ Len(active_rules) <= MaxRules
    /\ pc \in {"main", "custom", "prompt_range", "round", "exit"}
    /\ iteration \in 1..MaxIter

(* ------------------------- vocabulary of the claims -------------------- *)

\* two rules with equal kind and structurally equal params
SameRule(r1, r2) == r1.kind = r2.kind /\ r1.params = r2.params

\* the numbers named by the ban rules of a collection
BannedBy(rules) ==
    {rules[i].params.num : i \in {j \in 1..Len(rules) : rules[j].kind = "ban"}}

\* a non-ban rule targets n
Targets(rule, n) ==
    \/ rule.kind = "swap" /\ (n = rule.params.a \/ n = rule.params.b)
    \/ rule.kind = "replace" /\ n = rule.params.num
    \/ rule.kind = "divisible" /\ \E q \in -n..n : q * rule.params.divisor = n
    \/ rule.kind = "odd" /\ \E q \in 0..n : 2 * q + 1 = n
    \/ rule.kind = "even" /\ \E q \in 0..n : 2 * q = n

\* positions of the active non-ban rules that target n
TargetingPositions(n) ==
    {i \in 1..Len(active_rules) :
        active_rules[i].kind # "ban" /\ Targets(active_rules[i], n)}

Max(S) == CHOOSE m \in S : \A k \in S : k <= m

\* the smallest m > n that no active ban rule names
NearestNonBanned(n) ==
    LET B == BannedBy(active_rules)
    IN  CHOOSE m \in (n + 1)..(n + 1 + Cardinality(B)) :
            m \notin B /\ \A k \in (n + 1)..(m - 1) : k \in B

\* this step is a call try_add(entry'[1]) made in the state before it
TryAddCalled == entry' # None

Rejected == conflict' # None /\ active_rules' = active_rules

Accepted == conflict' = None /\ active_rules' = Append(active_rules, entry'[1])

(* --------------------------------- C1 ---------------------------------- *)

NoDuplicateRules ==
    \A i, j \in 1..Len(active_rules) :
        i # j => ~SameRule(active_rules[i], active_rules[j])

DuplicateIsRejected ==
    \A i \in 1..Len(active_rules) :
        (TryAddCalled /\ SameRule(entry'[1], active_rules[i])) =>
            /\ active_rules' = active_rules
            /\ conflict' = Some("An identical rule already exists -> ["
                                \o active_rules[i].description \o "]")

\* C1: the active collection never holds two rules with equal kind and equal
\* params, and proposing a rule equal in kind and params to an active rule is
\* rejected with the message that quotes the existing rule's description.
C1_NoDuplicates == []NoDuplicateRules /\ [][DuplicateIsRejected]_vars

\* a duplicate of an active rule has just been proposed and refused
C1_Witness ==
    /\ entry # None /\ conflict # None
    /\ \E i \in 1..Len(active_rules) : SameRule(entry[1], active_rules[i])

(* --------------------------------- C2 ---------------------------------- *)

\* C2: in a round, the expected answer for a number that is not banned is
\* the rendering of a fresh value after the one rule that is last in
\* collection order among the active non-ban rules targeting the number; it
\* is the number's decimal form when no rule targets it.
C2_LastTargetingRuleGoverns ==
    (pc = "round" /\ num \notin BannedBy(active_rules)) =>
        LET T == TargetingPositions(num)
        IN  IF T = {} THEN expected = ToStr(num)
            ELSE expected = render(Fn(active_rules[Max(T)], RuleValue(num))).value

\* a number that two rules target, the earlier of which would render
\* differently
C2_Witness ==
    /\ pc = "round" /\ num \notin BannedBy(active_rules)
    /\ Cardinality(TargetingPositions(num)) >= 2
    /\ expected # render(Fn(active_rules[Min(TargetingPositions(num))],
                            RuleValue(num))).value

(* --------------------------------- C3 ---------------------------------- *)

\* the state of the example: range [1,9], swap(6,9) then divisible(3,"Fizz"),
\* the round is at number 6
C3_Case ==
    /\ range_start = 1 /\ range_end = 9
    /\ active_rules = <<swap(6, 9), divisible(3, "Fizz")>>
    /\ pc = "round" /\ num = 6

\* C3 as stated: the expected answer for 6 is "9"
C3_Original == C3_Case => expected = "9"

\* C3, amended: with range [1,9] and swap(6,9) then divisible(3,"Fizz"), the
\* expected answer for 6 is "Fizz": the divisible rule is the last one in
\* collection order that targets 6.
C3_DivisibleGovernsSix == C3_Case => expected = "Fizz"

C3_Witness == C3_Case /\ rule_map[6] = divisible(3, "Fizz")

(* --------------------------------- C4 ---------------------------------- *)

\* the active rules without the ban rules
WithoutBans == SelectSeq(active_rules, LAMBDA r : r.kind # "ban")

\* C4: in a round, the expected answer for a banned number is the decimal
\* form of the smallest larger number that is not banned, whatever other
\* rules target either number; for a number that is not banned it is what
\* it would be with the ban rules taken out of the collection.
C4_BanOverride ==
    pc = "round" =>
        IF num \in BannedBy(active_rules)
        THEN expected = ToStr(NearestNonBanned(num))
        ELSE expected =
                ComputeExpected(num,
                    BuildRuleMap(WithoutBans, 1, EmptyMap, range_start, range_end),
                    {}).value

\* a banned number that a replace or swap rule also governs
C4_Witness ==
    /\ pc = "round" /\ num \in BannedBy(active_rules)
    /\ TargetingPositions(num) # {}
    /\ expected = ToStr(num + 1)

(* --------------------------------- C5 ---------------------------------- *)

\* the expected answer of m under the active rules
RenderingOf(m) == ComputeExpected(m, rule_map, banned_numbers).value

\* C5 as stated: the expected answer of a banned number is the rendering of
\* the nearest following number that is not banned
C5_Original ==
    (pc = "round" /\ num \in BannedBy(active_rules)) =>
        expected = RenderingOf(NearestNonBanned(num))

\* C5, amended: the expected answer of a banned number is the decimal form
\* of the nearest following number m that is not banned; it is m's own
\* rendering when no active non-ban rule targets m.
C5_CascadeIsDecimal ==
    (pc = "round" /\ num \in BannedBy(active_rules)) =>
        LET m == NearestNonBanned(num)
        IN  /\ expected = ToStr(m)
            /\ TargetingPositions(m) = {} => expected = RenderingOf(m)

\* a banned number whose follower is governed by a rule that renders it
\* otherwise
C5_Witness ==
    /\ pc = "round" /\ num \in BannedBy(active_rules)
    /\ NearestNonBanned(num) \in DOMAIN rule_map
    /\ expected # RenderingOf(NearestNonBanned(num))

(* --------------------------------- C6 ---------------------------------- *)

ReplaceOfBannedIsRejected ==
    (/\ TryAddCalled
     /\ entry'[1].kind = "replace"
     /\ entry'[1].params.num \in BannedBy(active_rules)) => Rejected

\* C6: while ban(n) is active, proposing replace(n, text) is rejected for
\* every text and the active collection stays as it was.
C6_ReplaceOfBanned == [][ReplaceOfBannedIsRejected]_vars

\* a replace of a banned number, not a duplicate, has been refused
C6_Witness ==
    /\ entry # None /\ entry[1].kind = "replace"
    /\ entry[1].params.num \in BannedBy(active_rules)
    /\ \A i \in 1..Len(active_rules) : ~SameRule(entry[1], active_rules[i])
    /\ conflict = Some(ToStr(entry[1].params.num)
                       \o " is already banned -- a replace rule for it would never fire")

(* --------------------------------- C7 ---------------------------------- *)

SwapAgainstBans ==
    (TryAddCalled /\ entry'[1].kind = "swap") =>
        IF \/ entry'[1].params.a \in BannedBy(active_rules)
           \/ entry'[1].params.b \in BannedBy(active_rules)
        THEN Rejected
        ELSE (\A i \in 1..Len(active_rules) : ~SameRule(entry'[1], active_rules[i]))
                => Accepted

\* C7: while ban(n) is active, proposing a swap with an endpoint n is
\* rejected; a swap whose endpoints are both not banned and that duplicates
\* no active rule is accepted.
C7_SwapWithBanned == [][SwapAgainstBans]_vars

\* a swap whose second endpoint alone is banned has been refused
C7_Witness ==
    /\ entry # None /\ entry[1].kind = "swap" /\ conflict # None
    /\ entry[1].params.a \notin BannedBy(active_rules)
    /\ entry[1].params.b \in BannedBy(active_rules)
    /\ \A i \in 1..Len(active_rules) : ~SameRule(entry[1], active_rules[i])

(* --------------------------------- C8 ---------------------------------- *)

BanAndTagRulesAreAccepted ==
    /\ (/\ TryAddCalled
        /\ entry'[1].kind = "ban"
        /\ entry'[1].params.num \notin BannedBy(active_rules)) => Accepted
    /\ (/\ TryAddCalled
        /\ entry'[1].kind \in {"divisible", "odd", "even"}
        /\ \A i \in 1..Len(active_rules) : ~SameRule(entry'[1], active_rules[i]))
            => Accepted

\* C8: proposing ban(n) is accepted whenever no ban(n) is active, also when
\* a replace, swap, divisible, odd or even rule already targets n; a
\* divisible, odd or even rule that duplicates no active rule is accepted
\* whatever it overlaps.
C8_BanAlwaysAccepted == [][BanAndTagRulesAreAccepted]_vars

\* ban(n) has been accepted after a replace or swap that names n
C8_Witness ==
    /\ entry # None /\ conflict = None /\ entry[1].kind = "ban"
    /\ \E i \in 1..Len(active_rules) :
        /\ active_rules[i].kind \in {"replace", "swap"}
        /\ Targets(active_rules[i], entry[1].params.num)
    /\ active_rules[Len(active_rules)] = entry[1]

(* --------------------------------- C9 ---------------------------------- *)

\* C9: render() never raises the banned error in a round, and no ban rule
\* is ever the governing rule of a number.
C9_NeverBannedAtRender ==
    /\ exc = None
    /\ \A n \in DOMAIN rule_map : rule_map[n].kind # "ban"

\* the round has computed an answer for a banned number, after a range
\* change, with a rule in the rule map
C9_Witness ==
    /\ pc = "round" /\ num \in banned_numbers
    /\ range_end # 10
    /\ DOMAIN rule_map # {}

(* --------------------------------- C11 --------------------------------- *)

ValidateThenInsert ==
    TryAddCalled =>
        /\ range_start' = range_start /\ range_end' = range_end
        /\ IF conflict' # None
           THEN active_rules' = active_rules
           ELSE /\ Len(active_rules') = Len(active_rules) + 1
                /\ active_rules'[Len(active_rules')] = entry'[1]
                /\ \A i \in 1..Len(active_rules) : active_rules'[i] = active_rules[i]

\* C11: a rejected proposal leaves the active collection and the range as
\* they were; an accepted one is put at the last position and the rules
\* already active keep their positions.
C11_ValidateThenInsert == [][ValidateThenInsert]_vars

\* a rule has been accepted behind a different rule that was already active
C11_Witness ==
    /\ entry # None /\ conflict = None
    /\ Len(active_rules) = 2
    /\ active_rules[2] = entry[1]
    /\ active_rules[1] # entry[1]

(* --------------------------------- C12 --------------------------------- *)

\* the collection after the step is the one before it without position i
RemovedAt(i) ==
    /\ Len(active_rules') = Len(active_rules) - 1
    /\ \A k \in 1..(i - 1) : active_rules'[k] = active_rules[k]
    /\ \A k \in i..(Len(active_rules) - 1) : active_rules'[k] = active_rules[k + 1]

RemoveByPosition ==
    \A inp \in IntInputs(0..(MaxRules + 1)) :
        remove_rule(inp) =>
            IF inp # None /\ 1 <= inp[1] /\ inp[1] <= Len(active_rules)
            THEN RemovedAt(inp[1]) /\ removed' = Some(active_rules[inp[1]])
            ELSE active_rules' = active_rules /\ removed' = None

\* C12: remove-rule with an index outside 1..count, or on an empty
\* collection, leaves the active collection as it was; with an index i in
\* 1..count it takes out the rule at position i and keeps the others in order.
C12_RemoveByPosition == [][RemoveByPosition]_vars

\* the first of two rules has been removed and the second remains: the
\* removed rule could not have been added behind the remaining one
C12_Witness ==
    /\ removed # None
    /\ Len(active_rules) = 1
    /\ ConflictChecker_check(active_rules, removed[1]) # None

(* --------------------------------- C13 --------------------------------- *)

RangeOrdered == range_start < range_end

BadRangeIsRefused ==
    \A start \in IntInputs(RangeNums), end \in IntInputs(RangeNums) :
        (/\ prompt_range(start, end)
         /\ start # None /\ end # None
         /\ start[1] >= end[1]) =>
            /\ range_start' = range_start /\ range_end' = range_end
            /\ pc' = "prompt_range"

\* C13: the range always has start < end; a range-change request with
\* start >= end does not modify the stored range.
C13_RangeOrdered == []RangeOrdered /\ [][BadRangeIsRefused]_vars

\* the range has been changed by a request and the menu is back
C13_Witness ==
    /\ pc = "main"
    /\ <<range_start, range_end>> # <<1, 10>>

(* --------------------------------- C14 --------------------------------- *)

NoZeroDivisor ==
    /\ \A i \in 1..Len(active_rules) :
        active_rules[i].kind = "divisible" => active_rules[i].params.divisor # 0
    /\ entry # None =>
        (entry[1].kind = "divisible" => entry[1].params.divisor # 0)

ZeroDivisorFailsFirst ==
    value_error' = Some(DivisorError) =>
        /\ entry' = None /\ conflict' = None
        /\ active_rules' = active_rules

\* C14: no divisible rule with divisor 0 is ever active or handed to the
\* conflict checker; the step in which divisible(0, text) is constructed
\* raises, calls no try_add and leaves the active collection as it was.
C14_DivisorZero == []NoZeroDivisor /\ [][ZeroDivisorFailsFirst]_vars

\* divisor 0 has been typed for the divisible pattern while a rule is active
C14_Witness ==
    /\ value_error = Some(DivisorError)
    /\ choice = 4
    /\ active_rules # <<>>

(* --------------------------------- C15 --------------------------------- *)

\* a round has ended on an incorrect guess
RoundFailed == pc = "exit" /\ exc = None /\ player_input # expected

\* C15 as stated: after a failed round the session goes on, so some step of
\* the program is still possible
C15_Original == RoundFailed => ENABLED <<Next>>_vars

WrongGuessEndsProcess ==
    /\ (pc = "round" /\ player_input' # expected) => pc' = "exit"
    /\ pc # "exit"

\* C15, amended: an incorrect guess ends the round and the process; the
\* main loop is left and no menu and no further round follows.
C15_FailedRoundEndsProcess == [][WrongGuessEndsProcess]_vars

\* a round played with an active rule has failed and nothing can follow
C15_Witness ==
    /\ RoundFailed
    /\ iteration > 1 /\ active_rules # <<>>
    /\ ~ENABLED <<Next>>_vars

(* --------------------------------- C16 --------------------------------- *)

\* this step is a pass of the retry loop in which the builder raised
MalformedInput == pc = "custom" /\ value_error' # None

\* C16 as stated: malformed input is followed by a new prompt until the 3
\* attempts are used
C16_Original ==
    [][MalformedInput => (pc' = "custom" \/ attempt = 3 - 1)]_vars

MalformedInputAbandons ==
    MalformedInput =>
        /\ pc' = "main"
        /\ attempt' = attempt
        /\ entry' = None
        /\ active_rules' = active_rules

\* C16, amended: malformed input during custom-rule construction is not
\* retried; add-custom-rule is abandoned at the first malformed input,
\* whatever the number of attempts used, with the collection unchanged.
C16_MalformedInputAbandons == [][MalformedInputAbandons]_vars

\* the first attempt met malformed input and the menu is back
C16_Witness ==
    /\ pc = "main"
    /\ value_error # None
    /\ choice # 0 /\ attempt = 0

(* --------------------------------- C17 --------------------------------- *)

RoundInOrder ==
    /\ (pc # "round" /\ pc' = "round") => num' = range_start
    /\ (pc = "round" /\ pc' = "round") =>
            num' = num + 1 /\ player_input' = expected
    /\ (pc = "round" /\ player_input' # expected) =>
            pc' = "exit" /\ num' = num
    /\ (pc = "round" /\ pc' = "main") =>
            num = range_end /\ player_input' = expected
    /\ pc' = "round" => (range_start <= num' /\ num' <= range_end)

\* C17: a round prompts for the numbers from start to end in ascending
\* order, one per answer; it stops at the first answer that differs from the
\* expected one, prompting for no later number, and it succeeds only from
\* the last number with a correct answer.
C17_RoundInOrder == [][RoundInOrder]_vars

\* a round has stopped on a wrong answer strictly inside the range
C17_Witness ==
    /\ pc = "exit" /\ player_input # expected
    /\ range_start < num /\ num < range_end

(* --------------------------------- C18 --------------------------------- *)

RetryLoop ==
    pc = "custom" =>
        /\ pc' = "custom" =>
            /\ entry' # None /\ conflict' # None
            /\ attempt' = attempt + 1
            /\ active_rules' = active_rules
        /\ (entry' # None /\ conflict' = None) =>
            /\ pc' = "main"
            /\ Len(active_rules') = Len(active_rules) + 1
        /\ Len(active_rules') <= Len(active_rules) + 1
        /\ (attempt = 3 - 1 /\ conflict' # None) =>
            /\ pc' = "main"
            /\ active_rules' = active_rules

\* C18: one add-custom-rule makes at most 3 attempts, prompts again only
\* after a conflict rejection, ends with the first accepted rule and so adds
\* at most one rule; after 3 rejections it is back at the menu with the
\* collection unchanged.
C18_RetryBudget == [](attempt \in 0..(3 - 1)) /\ [][RetryLoop]_vars

\* the third attempt has been rejected and the menu is back
C18_Witness ==
    /\ pc = "main"
    /\ choice # 0 /\ attempt = 2
    /\ entry # None /\ conflict # None

(* --------------------------------- C19 --------------------------------- *)

\* the proposed rule conflicts with the rules that are active now
ConflictsNow(proposed) ==
    \/ \E i \in 1..Len(active_rules) : SameRule(proposed, active_rules[i])
    \/ /\ proposed.kind = "replace"
       /\ proposed.params.num \in BannedBy(active_rules)
    \/ /\ proposed.kind = "swap"
       /\ \/ proposed.params.a \in BannedBy(active_rules)
          \/ proposed.params.b \in BannedBy(active_rules)

OnlyActiveRulesCount ==
    TryAddCalled =>
        IF ConflictsNow(entry'[1]) THEN Rejected ELSE Accepted

\* C19: a proposal is rejected exactly when it conflicts with the rules
\* active at that moment; rules that were removed play no part, so after
\* ban(n) is removed a replace or swap naming n is accepted, and a removed
\* rule can be added again.
C19_OnlyActiveRulesCount == [][OnlyActiveRulesCount]_vars

\* ban(9) has just been removed while another rule stays active, and
\* swap(6,9), which names 9, is accepted in the next step
C19_Witness ==
    /\ pc = "main"
    /\ removed = Some(banRule(9))
    /\ active_rules # <<>>
    /\ ENABLED (add_predefined_rule(Some(1)) /\ conflict' = None)

(* --------------------------------- C20 --------------------------------- *)

FirstRoundIsPlain ==
    iteration = 1 =>
        /\ active_rules = <<>>
        /\ range_start = 1 /\ range_end = 10
        /\ pc \in {"main", "round", "exit"}

CounterFollowsRounds ==
    /\ (\/ active_rules' # active_rules
        \/ range_start' # range_start
        \/ range_end' # range_end
        \/ pc' \in {"custom", "prompt_range"}) => iteration > 1
    /\ iteration' # iteration =>
        /\ iteration' = iteration + 1
        /\ pc = "round" /\ num = range_end
        /\ player_input' = expected

\* C20: in iteration 1 the collection is empty and the range is 1..10, and
\* no add, remove or range change happens there; the iteration counter grows
\* by one, and only in the step that answers the last number of a round
\* correctly.
C20_FirstRoundPlain == []FirstRoundIsPlain /\ [][CounterFollowsRounds]_vars

\* the first round has reached its last number
C20_Witness ==
    /\ iteration = 1 /\ pc = "round"
    /\ num = 10 /\ expected = "10"

====
